---- MODULE Spec2Model ----
(***************************************************************************)
(* Collatz Conjecture Explorer (src/streamlit_app.py).                     *)
(*                                                                         *)
(* The model covers parse_number (text preprocessing, the expression       *)
(* grammar that ast.parse applies to the preprocessed text, eval_node and  *)
(* the final positivity check), collatz_generator as a suspendable         *)
(* generator object, its consumers compute_sequence_strings,               *)
(* compute_full_sequence and compute_log_sequence, and the request         *)
(* pipeline at the end of the script.                                      *)
(*                                                                         *)
(* A Python string is a sequence of pieces; a piece is one character,      *)
(* except that the words True and a (an arbitrary identifier) are one      *)
(* piece each.  An integer is a TLA+ integer.  The bool True is the        *)
(* integer 1, as it is for every Python operation the program applies.     *)
(***************************************************************************)
EXTENDS Integers, Sequences, FiniteSets, TLC

\* ------------------------------------------------------------------ bounds

\* Longest user input, in pieces.
MaxLen == 4

\* Largest start value handed directly to the sequence functions.
MaxN == 30

\* Largest max_items handed directly to compute_sequence_strings.
MaxK == 4

\* ------------------------------------------------------- program constants

\* MAX_DIGITS = 10000 in the source.  The model runs the same code with a
\* budget of 2 digits: a 10000-digit integer is outside the integers the
\* model checker computes with, and every comparison against the budget in
\* the code is a comparison against this one name.
MAX_DIGITS == 2

\* compute_sequence_strings(n, max_items=10000): the default the pipeline uses.
DEFAULT_MAX_ITEMS == 10000

\* ------------------------------------------------------------------- text

Digits == {"0", "1", "2", "7"}

NameStart == {"True", "a"}

\* What integer arithmetic is typed with.
Arithmetic == Digits \cup {",", " ", "\t", "^", "*", "/", "+", "-"}

Alphabet == Arithmetic \cup NameStart \cup {"%", ".", "(", ")", "<"}

Whitespace == {" ", "\t"}

Strings(alphabet, n) == UNION {[1..k -> alphabet] : k \in 0..n}

\* str.replace(old, new) for a one-piece old and any new.
RECURSIVE replace(_, _, _)
replace(s, old, new) ==
    IF s = <<>> THEN <<>>
    ELSE (IF Head(s) = old THEN new ELSE <<Head(s)>>) \o replace(Tail(s), old, new)

\* str.strip(): leading and trailing whitespace removed.
RECURSIVE lstrip(_)
lstrip(s) == IF s # <<>> /\ Head(s) \in Whitespace THEN lstrip(Tail(s)) ELSE s

RECURSIVE rstrip(_)
rstrip(s) ==
    IF s # <<>> /\ s[Len(s)] \in Whitespace THEN rstrip(SubSeq(s, 1, Len(s) - 1)) ELSE s

strip(s) == rstrip(lstrip(s))

\* parse_number, lines 96-97.
preprocess(s) == replace(replace(replace(s, ",", <<>>), " ", <<>>), "^", <<"*", "*">>)

DigitValue(c) == CASE c = "0" -> 0 [] c = "1" -> 1 [] c = "2" -> 2 [] c = "7" -> 7

\* int(text) of a digit string.
RECURSIVE DecimalValue(_)
DecimalValue(ds) ==
    IF ds = <<>> THEN 0
    ELSE 10 * DecimalValue(SubSeq(ds, 1, Len(ds) - 1)) + DigitValue(ds[Len(ds)])

DigitChar(d) == CASE d = 0 -> "0" [] d = 1 -> "1" [] d = 2 -> "2" [] d = 3 -> "3"
                  [] d = 4 -> "4" [] d = 5 -> "5" [] d = 6 -> "6" [] d = 7 -> "7"
                  [] d = 8 -> "8" [] d = 9 -> "9"

\* str(val) of an integer: its decimal digits, a leading "-" when negative.
RECURSIVE StrNat(_)
StrNat(v) == IF v < 10 THEN <<DigitChar(v)>> ELSE StrNat(v \div 10) \o <<DigitChar(v % 10)>>

str(v) == IF v < 0 THEN <<"-">> \o StrNat(-v) ELSE StrNat(v)

\* ------------------------------------------------------------- tokenizer
\* ast.parse(s, mode='eval'), line 138: Python's tokenizer on the alphabet.
\* A token is <<type, value>>; value is the integer of a NUM and 0 otherwise.

\* F applied to the value v: a local name for a value that is used more
\* than once.
With(v, F(_)) == F(v)

At(s, i) == IF i >= 1 /\ i <= Len(s) THEN s[i] ELSE "EOF"

\* The first index >= i of s that holds no digit.
RECURSIVE DigitsEnd(_, _)
DigitsEnd(s, i) == IF At(s, i) \in Digits THEN DigitsEnd(s, i + 1) ELSE i

\* The first index >= i of s that holds no identifier piece.
RECURSIVE NameEnd(_, _)
NameEnd(s, i) == IF At(s, i) \in Digits \cup NameStart THEN NameEnd(s, i + 1) ELSE i

LexFail == [ok |-> FALSE, toks |-> <<>>]

\* A decimal integer literal: no leading zero unless it is all zeros.
ValidDecimal(ds) == ds[1] # "0" \/ \A i \in 1..Len(ds) : ds[i] = "0"

RECURSIVE Lex(_, _, _)

\* A number that starts at i, whose leading digits end before j.
LexNumber(s, i, j, acc) ==
    With(IF At(s, j) = "." THEN DigitsEnd(s, j + 1) ELSE j, LAMBDA k :
        IF At(s, k) \in NameStart THEN LexFail
        ELSE IF At(s, j) = "." THEN Lex(s, k, Append(acc, <<"FLOAT", 0>>))
        ELSE IF ~ValidDecimal(SubSeq(s, i, j - 1)) THEN LexFail
        ELSE Lex(s, k, Append(acc, <<"NUM", DecimalValue(SubSeq(s, i, j - 1))>>)))

\* A token that starts with the "." at i: a fraction, an ellipsis, a dot.
LexDot(s, i, acc) ==
    IF At(s, i + 1) \in Digits THEN
        With(DigitsEnd(s, i + 1), LAMBDA k :
            IF At(s, k) \in NameStart THEN LexFail
            ELSE Lex(s, k, Append(acc, <<"FLOAT", 0>>)))
    ELSE IF At(s, i + 1) = "." /\ At(s, i + 2) = "."
    THEN Lex(s, i + 3, Append(acc, <<"ELLIPSIS", 0>>))
    ELSE Lex(s, i + 1, Append(acc, <<".", 0>>))

\* An identifier that starts at i: the constant True, or a name.
LexName(s, i, acc) ==
    With(NameEnd(s, i), LAMBDA k :
        IF SubSeq(s, i, k - 1) = <<"True">>
        THEN Lex(s, k, Append(acc, <<"TRUE", 0>>))
        ELSE Lex(s, k, Append(acc, <<"NAME", 0>>)))

\* The tokens of s from i on, after the tokens acc.
Lex(s, i, acc) ==
    With(At(s, i), LAMBDA c :
        IF c = "EOF" THEN [ok |-> TRUE, toks |-> acc]
        ELSE IF c = "\t" THEN Lex(s, i + 1, acc)
        ELSE IF c \in Digits THEN LexNumber(s, i, DigitsEnd(s, i), acc)
        ELSE IF c = "." THEN LexDot(s, i, acc)
        ELSE IF c \in NameStart THEN LexName(s, i, acc)
        ELSE IF c \in {"*", "/", "<"} /\ At(s, i + 1) = c
        THEN Lex(s, i + 2, Append(acc, <<c \o c, 0>>))
        ELSE Lex(s, i + 1, Append(acc, <<c, 0>>)))

\* Leading whitespace is an IndentationError.
tokenize(s) == IF At(s, 1) = "\t" THEN LexFail ELSE Lex(s, 1, <<>>)

\* ---------------------------------------------------------------- parser
\* ast.parse(s, mode='eval'), line 138: Python's expression grammar on the
\* tokens above.  Nodes: <<"Constant", kind, value>>, <<"BinOp", op, l, r>>,
\* <<"UnaryOp", op, operand>>, <<"Expression", body>>, and the childless
\* <<"Name">>, <<"Call">>, <<"Attribute">>, <<"Compare">>, <<"Tuple">>
\* (eval_node rejects these without looking inside).

Peek(ts) == IF ts = <<>> THEN "EOF" ELSE ts[1][1]

ParseFail == [ok |-> FALSE, node |-> <<>>, rest |-> <<>>]

Parsed(node, rest) == [ok |-> TRUE, node |-> node, rest |-> rest]

\* Binary levels below comparison, loosest last: 1 term, 2 sum, 3 shift.
LevelOps(lv) == CASE lv = 1 -> {"*", "/", "//", "%"}
                  [] lv = 2 -> {"+", "-"}
                  [] lv = 3 -> {"<<"}

BinOpName(t) == CASE t = "*" -> "Mult" [] t = "/" -> "Div" [] t = "//" -> "FloorDiv"
                  [] t = "%" -> "Mod" [] t = "+" -> "Add" [] t = "-" -> "Sub"
                  [] t = "<<" -> "LShift"

RECURSIVE ParseExpression(_), ParseCompareRest(_), ParseBin(_, _), ParseBinRest(_, _, _)
RECURSIVE ParseFactor(_), ParsePower(_), ParsePrimary(_), ParseTrailers(_, _), ParseAtom(_)

\* The parse e of an expression in brackets, then its ')': the node is
\* node, or the expression's own when node is <<>>.
CloseBracket(e, node) ==
    IF e.ok /\ Peek(e.rest) = ")"
    THEN Parsed(IF node = <<>> THEN e.node ELSE node, Tail(e.rest))
    ELSE ParseFail

\* '(' has been read: the rest of a call's arguments and its ')'.
ParseCallRest(ts) ==
    IF Peek(ts) = ")" THEN Parsed(<<"Call">>, Tail(ts))
    ELSE IF Peek(ts) \in {"*", "**"}
    THEN CloseBracket(ParseExpression(Tail(ts)), <<"Call">>)
    ELSE CloseBracket(ParseExpression(ts), <<"Call">>)

ParseAtom(ts) ==
    With(Peek(ts), LAMBDA t :
        CASE t = "NUM" -> Parsed(<<"Constant", "int", ts[1][2]>>, Tail(ts))
          [] t = "TRUE" -> Parsed(<<"Constant", "bool", 1>>, Tail(ts))
          [] t = "FLOAT" -> Parsed(<<"Constant", "float", 0>>, Tail(ts))
          [] t = "ELLIPSIS" -> Parsed(<<"Constant", "Ellipsis", 0>>, Tail(ts))
          [] t = "NAME" -> Parsed(<<"Name">>, Tail(ts))
          [] t = "(" ->
                IF Peek(Tail(ts)) = ")" THEN Parsed(<<"Tuple">>, Tail(Tail(ts)))
                ELSE CloseBracket(ParseExpression(Tail(ts)), <<>>)
          [] OTHER -> ParseFail)

ParseTrailers(node, ts) ==
    IF Peek(ts) = "." THEN
        IF Peek(Tail(ts)) = "NAME" THEN ParseTrailers(<<"Attribute">>, Tail(Tail(ts)))
        ELSE ParseFail
    ELSE IF Peek(ts) = "(" THEN
        With(ParseCallRest(Tail(ts)), LAMBDA c :
            IF c.ok THEN ParseTrailers(c.node, c.rest) ELSE ParseFail)
    ELSE Parsed(node, ts)

ParsePrimary(ts) ==
    With(ParseAtom(ts), LAMBDA a :
        IF a.ok THEN ParseTrailers(a.node, a.rest) ELSE ParseFail)

\* power: primary ['**' factor]: the exponent may carry a sign, the base not.
ParsePower(ts) ==
    With(ParsePrimary(ts), LAMBDA p :
        IF p.ok /\ Peek(p.rest) = "**" THEN
            With(ParseFactor(Tail(p.rest)), LAMBDA f :
                IF f.ok THEN Parsed(<<"BinOp", "Pow", p.node, f.node>>, f.rest)
                ELSE ParseFail)
        ELSE p)

\* factor: ('+' | '-') factor | power: a sign applies to the whole power.
ParseFactor(ts) ==
    IF Peek(ts) \in {"+", "-"} THEN
        With(ParseFactor(Tail(ts)), LAMBDA f :
            IF f.ok
            THEN Parsed(<<"UnaryOp", IF Peek(ts) = "-" THEN "USub" ELSE "UAdd", f.node>>,
                        f.rest)
            ELSE ParseFail)
    ELSE ParsePower(ts)

ParseBinRest(lv, left, ts) ==
    IF Peek(ts) \in LevelOps(lv) THEN
        With(ParseBin(lv - 1, Tail(ts)), LAMBDA r :
            IF r.ok
            THEN ParseBinRest(lv, <<"BinOp", BinOpName(Peek(ts)), left, r.node>>, r.rest)
            ELSE ParseFail)
    ELSE Parsed(left, ts)

ParseBin(lv, ts) ==
    IF lv = 0 THEN ParseFactor(ts)
    ELSE With(ParseBin(lv - 1, ts), LAMBDA l :
            IF l.ok THEN ParseBinRest(lv, l.node, l.rest) ELSE ParseFail)

\* '<' has been read: the remaining comparators of a chain.
ParseCompareRest(ts) ==
    With(ParseBin(3, ts), LAMBDA r :
        IF ~r.ok THEN ParseFail
        ELSE IF Peek(r.rest) = "<" THEN ParseCompareRest(Tail(r.rest))
        ELSE Parsed(<<"Compare">>, r.rest))

ParseExpression(ts) ==
    With(ParseBin(3, ts), LAMBDA l :
        IF l.ok /\ Peek(l.rest) = "<" THEN ParseCompareRest(Tail(l.rest)) ELSE l)

\* The whole of the tokens is one expression.
ParseAll(lx) ==
    IF ~lx.ok THEN ParseFail
    ELSE With(ParseExpression(lx.toks), LAMBDA e :
            IF e.ok /\ e.rest = <<>> THEN e ELSE ParseFail)

\* ast.parse(s, mode='eval'): the tree, or SyntaxError.
ast_parse(s) ==
    With(ParseAll(tokenize(s)), LAMBDA e :
        IF e.ok THEN [ok |-> TRUE, tree |-> <<"Expression", e.node>>]
        ELSE [ok |-> FALSE, tree |-> <<>>])

\* ------------------------------------------------------------- eval_node
\* The outcome of an evaluation: the exception raised ("none" when it
\* returned), its message, the value returned, and ops, the arithmetic the
\* evaluation performed, in order: <<operation, left, right, result>>.

Return(v, ops) == [exc |-> "none", msg |-> "", value |-> v, ops |-> ops]

Raise(exc, msg, ops) == [exc |-> exc, msg |-> msg, value |-> 0, ops |-> ops]

\* The keys of the operators table, lines 99-107.
operators == {"Add", "Sub", "Mult", "Div", "Pow", "USub", "UAdd"}

\* operator.floordiv on integers, b # 0: the quotient rounded down.
floordiv(a, b) == IF b > 0 THEN a \div b ELSE (-a) \div (-b)

\* Whether acc * b^e > limit, without computing the power.
RECURSIVE PowAbove(_, _, _, _)
PowAbove(acc, b, e, limit) ==
    IF acc > limit THEN TRUE
    ELSE IF e = 0 \/ b = 1 THEN FALSE
    ELSE PowAbove(acc * b, b, e - 1, limit)

\* right * math.log10(left) > MAX_DIGITS for left >= 1, right >= 0, lines
\* 121-122: in exact arithmetic, left^right > 10^MAX_DIGITS.
est_digits_exceeds(left, right) == PowAbove(1, left, right, 10 ^ MAX_DIGITS)

\* operators[op_type](left, right), line 124.
apply_binary(op, left, right, ops) ==
    CASE op = "Add" -> Return(left + right, Append(ops, <<op, left, right, left + right>>))
      [] op = "Sub" -> Return(left - right, Append(ops, <<op, left, right, left - right>>))
      [] op = "Mult" -> Return(left * right, Append(ops, <<op, left, right, left * right>>))
      [] op = "Div" ->
            IF right = 0 THEN Raise("ZeroDivisionError", "integer division or modulo by zero", ops)
            ELSE Return(floordiv(left, right),
                        Append(ops, <<op, left, right, floordiv(left, right)>>))
      [] op = "Pow" -> Return(left ^ right, Append(ops, <<op, left, right, left ^ right>>))

\* A power that passes no size check first: the power is taken, then the
\* estimate compared.
eval_pow_compute_first(left, right, ops) ==
    IF left <= 0 \/ right < 0
    THEN Raise("ValueError", "Invalid exponentiation",
               Append(ops, <<"check_operands", left, right, 1>>))
    ELSE IF est_digits_exceeds(left, right)
    THEN Raise("ValueError", "Number too large",
               ops \o <<<<"check_operands", left, right, 0>>, <<"Pow", left, right, -1>>,
                        <<"est_digits", left, right, 1>>>>)
    ELSE Return(left ^ right,
               ops \o <<<<"check_operands", left, right, 0>>,
                        <<"Pow", left, right, left ^ right>>,
                        <<"est_digits", left, right, 0>>>>)

\* A power whose operand check lets a zero base through (left < 0).
eval_pow_zero_base(left, right, ops) ==
    IF left < 0 \/ right < 0
    THEN Raise("ValueError", "Invalid exponentiation",
               Append(ops, <<"check_operands", left, right, 1>>))
    ELSE IF est_digits_exceeds(left, right)
    THEN Raise("ValueError", "Number too large",
               ops \o <<<<"check_operands", left, right, 0>>, <<"est_digits", left, right, 1>>>>)
    ELSE apply_binary("Pow", left, right,
               ops \o <<<<"check_operands", left, right, 0>>, <<"est_digits", left, right, 0>>>>)

\* The power branch of eval_node, lines 118-124.  The two tests are logged
\* as they are made: "check_operands" (line 119) and "est_digits" (lines
\* 121-122), each with result 1 when it raised and 0 when it passed.
eval_pow(left, right, ops) ==
    IF left <= 0 \/ right < 0
    THEN Raise("ValueError", "Invalid exponentiation",
               Append(ops, <<"check_operands", left, right, 1>>))
    ELSE IF est_digits_exceeds(left, right)
    THEN Raise("ValueError", "Number too large",
               ops \o <<<<"check_operands", left, right, 0>>, <<"est_digits", left, right, 1>>>>)
    ELSE apply_binary("Pow", left, right,
               ops \o <<<<"check_operands", left, right, 0>>, <<"est_digits", left, right, 0>>>>)

\* The unary branch of eval_node once the operand is evaluated, line 129.
apply_unary(op, operand, ops) ==
    IF op = "USub" THEN Return(-operand, Append(ops, <<op, operand, 0, -operand>>))
    ELSE Return(operand, Append(ops, <<op, operand, 0, operand>>))

\* isinstance(node.value, int), line 131: bool is a subclass of int.
isinstance_int(kind) == kind \in {"int", "bool"}

RECURSIVE eval_node(_)

\* The binary branch once both operands are evaluated, lines 115-124.
eval_binop(op, left, right) ==
    IF right.exc # "none" THEN [right EXCEPT !.ops = left.ops \o right.ops]
    ELSE IF op \notin operators
    THEN Raise("ValueError", "Unsupported operator", left.ops \o right.ops)
    ELSE IF op = "Pow" THEN eval_pow(left.value, right.value, left.ops \o right.ops)
    ELSE apply_binary(op, left.value, right.value, left.ops \o right.ops)

\* eval_node, lines 109-135.  The left operand is evaluated, then the right
\* one, and only then is the operator looked up.
eval_node(node) ==
    CASE node[1] = "Expression" -> eval_node(node[2])
      [] node[1] = "BinOp" ->
            With(eval_node(node[3]), LAMBDA left :
                IF left.exc # "none" THEN left
                ELSE eval_binop(node[2], left, eval_node(node[4])))
      [] node[1] = "UnaryOp" ->
            IF node[2] \notin operators
            THEN Raise("ValueError", "Unsupported unary operator", <<>>)
            ELSE With(eval_node(node[3]), LAMBDA operand :
                    IF operand.exc # "none" THEN operand
                    ELSE apply_unary(node[2], operand.value, operand.ops))
      [] node[1] = "Constant" ->
            IF ~isinstance_int(node[2])
            THEN Raise("ValueError", "Only integers are allowed", <<>>)
            ELSE Return(node[3], <<>>)
      [] OTHER -> Raise("ValueError", "Unsupported expression", <<>>)

\* ---------------------------------------------------------- parse_number

\* Lines 138-139: the tree is parsed, then evaluated.
parse_and_eval(s) ==
    With(ast_parse(s), LAMBDA p :
        IF p.ok THEN eval_node(p.tree) ELSE Raise("SyntaxError", "invalid syntax", <<>>))

\* The exception classes "except Exception" catches, line 140.
ExceptionClasses == {"ValueError", "SyntaxError", "ZeroDivisionError"}

\* The handler that lets everything but ValueError through.
caught_only_ValueError(exc) == exc = "ValueError"

\* Line 140: except Exception.
caught(exc) == exc \in ExceptionClasses

\* The final check accepting zero.
is_rejected_negative_only(value) == value < 0

\* Line 143: not isinstance(value, int) or value <= 0 (every value that
\* eval_node returns is an int).
is_rejected(value) == value <= 0

\* Lines 140-145, inner being the outcome of lines 138-139: it is kept as
\* the cause inside the message of the exception that leaves.
parse_number_outcome(inner) ==
    IF inner.exc # "none" THEN
        IF caught(inner.exc)
        THEN [exc |-> "ValueError", msg |-> "Invalid numerical expression", value |-> 0,
              inner |-> inner]
        ELSE [exc |-> inner.exc, msg |-> inner.msg, value |-> 0, inner |-> inner]
    ELSE IF is_rejected(inner.value)
    THEN [exc |-> "ValueError", msg |-> "Result is not a positive integer", value |-> 0,
          inner |-> inner]
    ELSE [exc |-> "none", msg |-> "", value |-> inner.value, inner |-> inner]

\* parse_number(s), lines 95-145.
parse_number(s) == parse_number_outcome(parse_and_eval(preprocess(s)))

\* ----------------------------------------------------- collatz_generator
\* A generator object: n, and at, where it is suspended: "start" (created,
\* not yet run), "yield_n" (at line 150), "yield_1" (at line 152), "done"
\* (returned).

collatz_generator(n) == [n |-> n, at |-> "start"]

\* Line 151.
collatz_step(n) == IF n % 2 = 0 THEN n \div 2 ELSE 3 * n + 1

\* The generator without its line 152: it returns when n reaches 1.
gen_next_without_final_yield(g) ==
    LET n == IF g.at = "yield_n" THEN collatz_step(g.n) ELSE g.n
        stepped == IF g.at = "yield_n" THEN 1 ELSE 0
    IN  IF g.at \in {"yield_1", "done"} \/ n = 1
        THEN [gen |-> [g EXCEPT !.at = "done"], stop |-> TRUE, value |-> 0, stepped |-> 0]
        ELSE [gen |-> [n |-> n, at |-> "yield_n"], stop |-> FALSE, value |-> n,
              stepped |-> stepped]

\* next(g): the generator runs to its next yield.  stop is StopIteration;
\* stepped counts the executions of line 151 during this call.
gen_next(g) ==
    LET n == IF g.at = "yield_n" THEN collatz_step(g.n) ELSE g.n
        stepped == IF g.at = "yield_n" THEN 1 ELSE 0
    IN  IF g.at \in {"yield_1", "done"}
        THEN [gen |-> [g EXCEPT !.at = "done"], stop |-> TRUE, value |-> 0, stepped |-> 0]
        ELSE IF n # 1
        THEN [gen |-> [n |-> n, at |-> "yield_n"], stop |-> FALSE, value |-> n,
              stepped |-> stepped]
        ELSE [gen |-> [n |-> n, at |-> "yield_1"], stop |-> FALSE, value |-> 1,
              stepped |-> stepped]

\* ------------------------------------------------------------- consumers
\* A running call of one of the three sequence functions: its generator, the
\* enumerate index i, the list built so far, whether it has returned, and
\* what it did to the generator: nexts, the calls of next(); yielded, the
\* values those calls delivered; steps, the executions of line 151.

NewCall(n) ==
    [gen |-> collatz_generator(n), i |-> 0, list |-> <<>>, returned |-> FALSE,
     nexts |-> 0, yielded |-> <<>>, steps |-> 0]

\* One next() on the call's generator, recorded.
Pulled(c, r) ==
    [c EXCEPT !.gen = r.gen, !.nexts = @ + 1, !.steps = @ + r.stepped,
              !.yielded = IF r.stop THEN @ ELSE Append(@, r.value)]

\* Line 165: f"... (truncated at {max_items} items)".
Sentinel(max_items) == <<"... (truncated at ">> \o str(max_items) \o <<" items)">>

\* The loop of compute_sequence_strings that goes on pulling after the
\* sentinel is appended (no break).
sequence_strings_iteration_no_break(c, max_items) ==
    LET r == gen_next(c.gen)
        p == Pulled(c, r)
    IN  IF r.stop THEN [p EXCEPT !.returned = TRUE]
        ELSE IF c.i >= max_items
        THEN [p EXCEPT !.list = Append(@, Sentinel(max_items)), !.i = @ + 1]
        ELSE [p EXCEPT !.list = Append(@, str(r.value)), !.i = @ + 1]

\* The loop of compute_sequence_strings that truncates one element late
\* (i > max_items).
sequence_strings_iteration_late(c, max_items) ==
    LET r == gen_next(c.gen)
        p == Pulled(c, r)
    IN  IF r.stop THEN [p EXCEPT !.returned = TRUE]
        ELSE IF c.i > max_items
        THEN [p EXCEPT !.list = Append(@, Sentinel(max_items)), !.returned = TRUE]
        ELSE [p EXCEPT !.list = Append(@, str(r.value)), !.i = @ + 1]

\* One iteration of the for loop of compute_sequence_strings, lines 163-168.
sequence_strings_iteration(c, max_items) ==
    LET r == gen_next(c.gen)
        p == Pulled(c, r)
    IN  IF r.stop THEN [p EXCEPT !.returned = TRUE]
        ELSE IF c.i >= max_items
        THEN [p EXCEPT !.list = Append(@, Sentinel(max_items)), !.returned = TRUE]
        ELSE [p EXCEPT !.list = Append(@, str(r.value)), !.i = @ + 1]

\* One iteration of the comprehension of compute_full_sequence, line 173.
full_sequence_iteration(c) ==
    LET r == gen_next(c.gen)
        p == Pulled(c, r)
    IN  IF r.stop THEN [p EXCEPT !.returned = TRUE]
        ELSE [p EXCEPT !.list = Append(@, str(r.value))]

\* math.log(x): the natural logarithm, kept symbolic.
math_log(x) == <<"ln", x>>

\* One iteration of the comprehension of compute_log_sequence, line 157.
log_sequence_iteration(c) ==
    LET r == gen_next(c.gen)
        p == Pulled(c, r)
    IN  IF r.stop THEN [p EXCEPT !.returned = TRUE]
        ELSE [p EXCEPT !.list = Append(@, math_log(r.value))]

\* One iteration of the function fn.
iteration(fn, c, max_items) ==
    CASE fn = "compute_sequence_strings" -> sequence_strings_iteration(c, max_items)
      [] fn = "compute_full_sequence" -> full_sequence_iteration(c)
      [] fn = "compute_log_sequence" -> log_sequence_iteration(c)

\* A call run until it returns.
RECURSIVE run(_, _, _)
run(fn, c, max_items) ==
    IF c.returned THEN c ELSE run(fn, iteration(fn, c, max_items), max_items)

compute_log_sequence(n) == run("compute_log_sequence", NewCall(n), 0).list

compute_sequence_strings(n, max_items) ==
    run("compute_sequence_strings", NewCall(n), max_items).list

compute_full_sequence(n) == run("compute_full_sequence", NewCall(n), 0).list

\* ------------------------------------------------------------------ state

VARIABLES
    pc,          \* where the run is
    user_input,  \* st.session_state["user_input"]
    result,      \* what parse_number did: returned a value, or raised
    signal,      \* what the page shows: st.error, or the rendered sequence
    rendered,    \* the lists handed to the page
    fn,          \* the sequence function called directly
    max_items,   \* its max_items
    start,       \* its n
    call         \* its running call

vars == <<pc, user_input, result, signal, rendered, fn, max_items, start, call>>

NoResult == [exc |-> "none", msg |-> "", value |-> 0, inner |-> Return(0, <<>>)]

NoRendered == [log_sequence |-> <<>>, sequence_str |-> <<>>, full_sequence_str |-> <<>>,
               truncated_warning |-> FALSE]

NoCall == NewCall(1)

\* The inputs: every text of at most MaxLen pieces of arithmetic, and every
\* text of fewer pieces of the whole alphabet.
Inputs == Strings(Arithmetic, MaxLen) \cup Strings(Alphabet, MaxLen - 1)

\* ----------------------------------------------------- the request pipeline

Init ==
    /\ pc = "idle"
    /\ user_input = <<>>
    /\ result = NoResult
    /\ signal = "none"
    /\ rendered = NoRendered
    /\ fn = "none"
    /\ max_items = 0
    /\ start = 1
    /\ call = NoCall

\* Lines 87-89: the text field's content is kept when it is not blank.
Submit ==
    /\ pc = "idle"
    /\ \E s \in Inputs :
        /\ strip(s) # <<>>
        /\ user_input' = s
    /\ pc' = "submitted"
    /\ UNCHANGED <<result, signal, rendered, fn, max_items, start, call>>

\* Line 178.
ParseNumber ==
    /\ pc = "submitted"
    /\ result' = parse_number(user_input)
    /\ pc' = IF result'.exc = "none" THEN "parsed" ELSE "raised"
    /\ UNCHANGED <<user_input, signal, rendered, fn, max_items, start, call>>

\* Lines 213-214: except ValueError.  Any other exception leaves the script.
HandleException ==
    /\ pc = "raised"
    /\ signal' = IF result.exc = "ValueError" THEN "invalid_input" ELSE "uncaught"
    /\ pc' = "done"
    /\ UNCHANGED <<user_input, result, rendered, fn, max_items, start, call>>

\* Lines 183-211: the three lists, and the warning of line 203.
Page(log_sequence, sequence_str, full_sequence_str) ==
    [log_sequence |-> log_sequence, sequence_str |-> sequence_str,
     full_sequence_str |-> full_sequence_str,
     truncated_warning |-> Len(sequence_str) >= 10000]

\* Lines 179-211.
Render ==
    /\ pc = "parsed"
    /\ IF result.value <= 0
       THEN /\ signal' = "enter_positive"
            /\ UNCHANGED rendered
       ELSE /\ signal' = "sequence"
            /\ rendered' = Page(compute_log_sequence(result.value),
                                compute_sequence_strings(result.value, DEFAULT_MAX_ITEMS),
                                compute_full_sequence(result.value))
    /\ pc' = "done"
    /\ UNCHANGED <<user_input, result, fn, max_items, start, call>>

Next ==
    \/ Submit
    \/ ParseNumber
    \/ HandleException
    \/ Render

Spec == Init /\ [][Next]_vars

\* ------------------------------------------- the sequence functions, called

SequenceFunctions == {"compute_sequence_strings", "compute_full_sequence", "compute_log_sequence"}

InitSeq ==
    /\ pc = "ready"
    /\ user_input = <<>>
    /\ result = NoResult
    /\ signal = "none"
    /\ rendered = NoRendered
    /\ fn = "none"
    /\ max_items = 0
    /\ start = 1
    /\ call = NoCall

\* A call of one of the three functions with a positive n; max_items is an
\* argument of compute_sequence_strings alone.
Call ==
    /\ pc = "ready"
    /\ \E f \in SequenceFunctions, n \in 1..MaxN, k \in 0..MaxK :
        /\ (f # "compute_sequence_strings" => k = 0)
        /\ fn' = f
        /\ start' = n
        /\ max_items' = k
        /\ call' = NewCall(n)
    /\ pc' = "running"
    /\ UNCHANGED <<user_input, result, signal, rendered>>

Iterate(f) ==
    /\ pc = "running"
    /\ fn = f
    /\ call' = iteration(f, call, max_items)
    /\ pc' = IF call'.returned THEN "returned" ELSE "running"
    /\ UNCHANGED <<user_input, result, signal, rendered, fn, max_items, start>>

StringsIterate == Iterate("compute_sequence_strings")

FullIterate == Iterate("compute_full_sequence")

LogIterate == Iterate("compute_log_sequence")

NextSeq ==
    \/ Call
    \/ StringsIterate
    \/ FullIterate
    \/ LogIterate

SpecSeq == InitSeq /\ [][NextSeq]_vars

\* A running call is run on: the interpreter does not stop inside a loop.
FairSeq == SpecSeq /\ WF_vars(NextSeq)

\* ================================================================ claims

\* parse_number has run on the submitted text.
AfterParse == pc \in {"parsed", "raised", "done"}

\* The arithmetic that the evaluation of the submitted text performed.
Ops == result.inner.ops

Last(s) == s[Len(s)]

\* The first m values of the Collatz trajectory of n, as the conjecture's
\* definition gives it (all of them when the trajectory is no longer than m).
RECURSIVE Trajectory(_, _)
Trajectory(n, m) ==
    IF m = 0 THEN <<>>
    ELSE IF n = 1 THEN <<1>>
    ELSE <<n>> \o Trajectory(IF n % 2 = 0 THEN n \div 2 ELSE 3 * n + 1, m - 1)

\* ---- C1
\* What the generator has yielded so far starts at n, follows x = p/2 for an
\* even p and x = 3p+1 for an odd p, and holds a 1 nowhere but in the last
\* place; once the generator has returned, it is not empty and ends in 1.
C1_Yielded ==
    LET y == call.yielded IN
    /\ (y # <<>> => y[1] = start)
    /\ \A j \in 2..Len(y) :
          y[j] = IF y[j - 1] % 2 = 0 THEN y[j - 1] \div 2 ELSE 3 * y[j - 1] + 1
    /\ \A j \in 1..(Len(y) - 1) : y[j] > 1
    /\ (call.gen.at = "done" => y # <<>> /\ Last(y) = 1)

\* A call that consumes the whole generator.
C1_Exhausting == pc = "running" /\ fn \in {"compute_full_sequence", "compute_log_sequence"}

\* C1: for every positive n within the bound, collatz_generator(n)
\* terminates; its first element is n, each later element is the Collatz
\* successor of the one before, its last element is 1 and every element
\* before the last is > 1.
C1_GeneratorTrajectory ==
    /\ []C1_Yielded
    /\ (C1_Exhausting ~> (pc = "returned" /\ call.gen.at = "done"))

\* The generator of 27 has returned after its 112 elements, the last one 1.
C1_Witness ==
    /\ pc = "returned"
    /\ fn = "compute_full_sequence"
    /\ start = 27
    /\ call.gen.at = "done"
    /\ Len(call.yielded) = 112
    /\ Last(call.yielded) = 1

\* ---- C2
\* The rendering of T, the first k + 1 values of a trajectory: a trajectory
\* longer than k has k + 1 of them.
C2_Rendered(T, k) ==
    IF Len(T) > k
    THEN [j \in 1..(k + 1) |-> IF j <= k THEN str(T[j]) ELSE Sentinel(k)]
    ELSE [j \in 1..Len(T) |-> str(T[j])]

\* The list compute_sequence_strings(n, k) must return.
C2_Expected(n, k) == C2_Rendered(Trajectory(n, k + 1), k)

\* C2: compute_sequence_strings(n, k) returns the decimal strings of the
\* first k trajectory values followed by one sentinel when the trajectory is
\* longer than k, and the whole rendered trajectory with no sentinel when its
\* length is <= k.
C2_TruncatedRendering ==
    (pc = "returned" /\ fn = "compute_sequence_strings")
        => call.list = C2_Expected(start, max_items)

\* The trajectory of 8 (8, 4, 2, 1) rendered with limit 4: length exactly k.
C2_Witness ==
    /\ pc = "returned"
    /\ fn = "compute_sequence_strings"
    /\ start = 8
    /\ max_items = 4
    /\ call.list = <<<<"8">>, <<"4">>, <<"2">>, <<"1">>>>

\* ---- C3
\* Whether left^right has more than MAX_DIGITS digits by the estimate.
C3_OverBudget(left, right) == PowAbove(1, left, right, 10 ^ MAX_DIGITS)

\* C3: a power is computed only right after its operand check and its digit
\* estimate have passed, and then exactly; an estimate over the budget ends
\* the evaluation with the size-limit failure, no power computed after it.
C3_EstimateBeforePower ==
    AfterParse =>
        \A j \in 1..Len(Ops) :
            /\ Ops[j][1] = "Pow" =>
                  /\ j >= 3
                  /\ Ops[j - 1] = <<"est_digits", Ops[j][2], Ops[j][3], 0>>
                  /\ Ops[j - 2] = <<"check_operands", Ops[j][2], Ops[j][3], 0>>
                  /\ ~C3_OverBudget(Ops[j][2], Ops[j][3])
                  /\ Ops[j][4] = Ops[j][2] ^ Ops[j][3]
            /\ Ops[j][1] = "est_digits" =>
                  IF C3_OverBudget(Ops[j][2], Ops[j][3])
                  THEN /\ Ops[j][4] = 1
                       /\ j = Len(Ops)
                       /\ result.exc = "ValueError"
                       /\ result.inner.msg = "Number too large"
                  ELSE /\ Ops[j][4] = 0
                       /\ j < Len(Ops)
                       /\ Ops[j + 1][1] = "Pow"

\* "2^7" (128, over a budget of 2 digits) is rejected after the estimate,
\* and no power was computed.
C3_Witness ==
    /\ pc = "done"
    /\ user_input = <<"2", "^", "7">>
    /\ Ops = <<<<"check_operands", 2, 7, 0>>, <<"est_digits", 2, 7, 1>>>>
    /\ result.inner.msg = "Number too large"
    /\ signal = "invalid_input"

\* ---- C4
\* C4: no operator applied during an evaluation produces a value of more than
\* MAX_DIGITS decimal digits.
C4_NoValueOverBudget ==
    AfterParse =>
        \A j \in 1..Len(Ops) :
            Ops[j][1] \in operators
                => (Ops[j][4] < 10 ^ MAX_DIGITS /\ Ops[j][4] > -(10 ^ MAX_DIGITS))

\* ---- C5
\* C5: parse_number returns only integers >= 1; whenever the expression
\* evaluates to an integer <= 0 the parse is rejected.
C5_PositiveResult ==
    AfterParse =>
        /\ (result.exc = "none" => result.value >= 1 /\ result.value = result.inner.value)
        /\ (result.inner.exc = "none" /\ result.inner.value <= 0
                => /\ result.exc = "ValueError"
                   /\ result.msg = "Result is not a positive integer"
                   /\ pc # "parsed")

\* "1/2" evaluates to 0 and is rejected.
C5_Witness ==
    /\ pc = "done"
    /\ user_input = <<"1", "/", "2">>
    /\ result.inner.exc = "none"
    /\ result.inner.value = 0
    /\ result.exc = "ValueError"
    /\ signal = "invalid_input"

\* ---- C6
\* A tree of integer literals, unary + and -, and binary +, -, *, / and **.
RECURSIVE C6_Legal(_)
C6_Legal(node) ==
    CASE node[1] = "Expression" -> C6_Legal(node[2])
      [] node[1] = "Constant" -> node[2] = "int"
      [] node[1] = "UnaryOp" -> node[2] \in {"USub", "UAdd"} /\ C6_Legal(node[3])
      [] node[1] = "BinOp" ->
            /\ node[2] \in {"Add", "Sub", "Mult", "Div", "Pow"}
            /\ C6_Legal(node[3])
            /\ C6_Legal(node[4])
      [] OTHER -> FALSE

\* C6: parse_number returns a value only for an expression built from
\* integer literals, unary + and -, and binary +, -, *, / and power.
C6_OnlyArithmetic ==
    (AfterParse /\ result.exc = "none")
        => LET p == ast_parse(preprocess(user_input)) IN p.ok /\ C6_Legal(p.tree)

\* ---- C7
\* Every operand check of a power raises exactly when the base is <= 0 or
\* the exponent < 0, the failure is the domain error, and no power is
\* computed on such operands.
C7_DomainError ==
    \A j \in 1..Len(Ops) :
        /\ Ops[j][1] = "check_operands" =>
              /\ Ops[j][4] = (IF Ops[j][2] <= 0 \/ Ops[j][3] < 0 THEN 1 ELSE 0)
              /\ Ops[j][4] = 1 =>
                    /\ j = Len(Ops)
                    /\ result.exc = "ValueError"
                    /\ result.inner.exc = "ValueError"
                    /\ result.inner.msg = "Invalid exponentiation"
        /\ Ops[j][1] = "Pow" => (Ops[j][2] > 0 /\ Ops[j][3] >= 0)

C7_FailsWithDomainError(s) ==
    user_input = s
        => /\ result.exc = "ValueError"
           /\ result.inner.exc = "ValueError"
           /\ result.inner.msg = "Invalid exponentiation"

\* C7 as claimed: every power with base <= 0 or exponent < 0 is rejected with
\* the domain error, and "7^-1" and "-7^2" both fail with the domain error.
C7_Original ==
    AfterParse =>
        /\ C7_DomainError
        /\ C7_FailsWithDomainError(<<"7", "^", "-", "1">>)
        /\ C7_FailsWithDomainError(<<"-", "7", "^", "2">>)

\* C7 as amended: every power with base <= 0 or exponent < 0 is rejected with
\* the domain error, and so is "7^-1"; "-7^2" is -(7^2): its power is
\* computed (49), it evaluates to -49 and fails as a non-positive result.
C7_Amended ==
    AfterParse =>
        /\ C7_DomainError
        /\ C7_FailsWithDomainError(<<"7", "^", "-", "1">>)
        /\ user_input = <<"-", "7", "^", "2">> =>
              /\ result.inner.exc = "none"
              /\ result.inner.value = -49
              /\ <<"Pow", 7, 2, 49>> \in {Ops[j] : j \in 1..Len(Ops)}
              /\ result.exc = "ValueError"
              /\ result.msg = "Result is not a positive integer"

\* "-7^2" has been evaluated to -49 and rejected.
C7_Witness ==
    /\ pc = "done"
    /\ user_input = <<"-", "7", "^", "2">>
    /\ result.inner.value = -49
    /\ result.msg = "Result is not a positive integer"
    /\ signal = "invalid_input"

\* ---- C8
\* C8: whatever fails inside parse_number leaves it as a ValueError, and the
\* pipeline answers every failure with the one invalid-input signal and
\* renders no sequence.
C8_OneFailureKind ==
    /\ (AfterParse /\ result.inner.exc # "none") => result.exc = "ValueError"
    /\ (AfterParse /\ result.exc # "none") => (result.exc = "ValueError" /\ pc # "parsed")
    /\ (pc = "done" /\ result.exc # "none")
          => (signal = "invalid_input" /\ rendered = NoRendered)
    /\ (pc = "done" /\ result.exc = "none") => signal = "sequence"

\* "1/0": the ZeroDivisionError has left parse_number as a ValueError and the
\* page shows the invalid-input signal.
C8_Witness ==
    /\ pc = "done"
    /\ user_input = <<"1", "/", "0">>
    /\ result.inner.exc = "ZeroDivisionError"
    /\ result.exc = "ValueError"
    /\ signal = "invalid_input"
    /\ rendered = NoRendered

\* ---- C9
C9_DigitsOf(s) == SelectSeq(s, LAMBDA c : c \in Digits)

\* A decimal numeral of a positive integer (no leading zero) with commas and
\* whitespace interspersed.
C9_DecimalText(s) ==
    /\ \A i \in 1..Len(s) : s[i] \in Digits \cup {","} \cup Whitespace
    /\ C9_DigitsOf(s) # <<>>
    /\ C9_DigitsOf(s)[1] # "0"

\* C9: for a decimal numeral with commas and whitespace interspersed,
\* parse_number returns the value of the digits that remain when the commas
\* and the whitespace are removed.
C9_ReadsDecimal ==
    (AfterParse /\ C9_DecimalText(user_input))
        => (result.exc = "none" /\ result.value = DecimalValue(C9_DigitsOf(user_input)))

\* ---- C10
\* The number of sentinels in the list of the running call.
C10_Sentinels ==
    Cardinality({j \in 1..Len(call.list) : call.list[j] = Sentinel(max_items)})

C10_Bounded ==
    /\ call.steps <= Len(call.yielded)
    /\ Len(call.yielded) <= call.nexts
    /\ fn = "compute_sequence_strings" =>
          /\ Len(call.yielded) <= max_items + 1
          /\ C10_Sentinels <= 1
          /\ C10_Sentinels = 1 => (call.returned /\ pc = "returned")
          /\ (call.returned /\ Len(call.yielded) = max_items + 1) => C10_Sentinels = 1

\* C10: the generator takes at most one Collatz step for each element
\* pulled; compute_sequence_strings(n, k) pulls at most k+1 elements, appends
\* the sentinel once, and pulls nothing after the sentinel is appended.
C10_LazyTruncation ==
    /\ []C10_Bounded
    /\ [][/\ call'.steps <= call.steps + 1
          /\ (fn = "compute_sequence_strings" /\ C10_Sentinels = 1)
                => (call'.nexts = call.nexts /\ call'.yielded = call.yielded)]_vars

\* compute_sequence_strings(27, 4) has returned: 5 elements pulled out of
\* 112, 4 steps taken, one sentinel.
C10_Witness ==
    /\ pc = "returned"
    /\ fn = "compute_sequence_strings"
    /\ start = 27
    /\ max_items = 4
    /\ Len(call.yielded) = 5
    /\ call.steps = 4
    /\ C10_Sentinels = 1
    /\ call.gen.at = "yield_n"

====
